---- MODULE Spec2Model ----
(***************************************************************************)
(* The CSV bridge of Employee/myapp/views.py: read_csv_file imports the    *)
(* staged file upload/data.csv into the CseStudents table, one save() per  *)
(* row, and write_into_csv_file exports the table, ordered by name, to     *)
(* upload/file1.csv.                                                       *)
(*                                                                         *)
(* A text (a CSV cell, a CharField value) is a sequence of one-character   *)
(* strings, so that parsing and formatting are computed, not assumed.      *)
(***************************************************************************)
EXTENDS Integers, Sequences, FiniteSets, Bags, TLC

VARIABLES files, store, nextId, runs, uploads, inflight, writable, response,
          employee, employeeNextId, editing, users, session, registering

vars == <<files, store, nextId, runs, uploads, inflight, writable, response,
          employee, employeeNextId, editing, users, session, registering>>

(***************************************************************************)
(* Bounds of the model.                                                    *)
(***************************************************************************)
MaxRows == 2
MaxRuns == 2
MaxUploads == 1

\* the ids the Employee table gives out
MaxEmployees == 2

\* the users that register
MaxUsers == 2

(***************************************************************************)
(* Texts.                                                                  *)
(***************************************************************************)
Digits == <<"0", "1", "2", "3", "4", "5", "6", "7", "8", "9">>

DigitSet == {Digits[i] : i \in 1..10}

DigitVal(c) == (CHOOSE i \in 1..10 : Digits[i] = c) - 1

Front(s) == SubSeq(s, 1, Len(s) - 1)

RECURSIVE IntVal(_)
\* int("20") = 20: the value of a string of decimal digits
IntVal(s) == IF s = <<>> THEN 0 ELSE IntVal(Front(s)) * 10 + DigitVal(s[Len(s)])

RECURSIVE IntText(_)
\* str(20) = "20": the decimal digits of a natural number, no leading zero
IntText(n) == IF n < 10 THEN <<Digits[n + 1]>> ELSE IntText(n \div 10) \o <<Digits[(n % 10) + 1]>>

\* the characters of the model in code point order
Ascii == <<".", "0", "1", "2", "3", "4", "5", "6", "7", "8", "9", "a", "b", "e", "f", "n", "p", "x">>

CodePoint(c) == CHOOSE i \in 1..Len(Ascii) : Ascii[i] = c

RECURSIVE TextLeq(_, _)
\* a <= b in the lexical order of the texts
TextLeq(a, b) ==
  IF a = <<>> THEN TRUE
  ELSE IF b = <<>> THEN FALSE
  ELSE IF Head(a) = Head(b) THEN TextLeq(Tail(a), Tail(b))
  ELSE CodePoint(Head(a)) < CodePoint(Head(b))

(***************************************************************************)
(* pd.read_csv: every column is parsed on its own; the cells of a column   *)
(* decide its dtype.  Values are tagged: an int64, a float64 (integer part *)
(* n and fraction digits fr, or NaN), or a str of an object column.        *)
(***************************************************************************)
PyInt(n) == [t |-> "int", n |-> n, fr |-> <<>>, s |-> <<>>]
PyFloat(n, fr) == [t |-> "float", n |-> n, fr |-> fr, s |-> <<>>]
PyNaN == [t |-> "nan", n |-> 0, fr |-> <<>>, s |-> <<>>]
PyStr(s) == [t |-> "str", n |-> 0, fr |-> <<>>, s |-> s]

\* the cells read_csv takes for a missing value (its default na_values)
NaValues ==
  { <<>>,
    <<"n", "a", "n">>, <<"N", "a", "N">>, <<"N", "A">>, <<"N", "/", "A">>,
    <<"n", "/", "a">>, <<"N", "U", "L", "L">>, <<"n", "u", "l", "l">>,
    <<"N", "o", "n", "e">>, <<"<", "N", "A", ">">>, <<"#", "N", "A">>,
    <<"#", "N", "/", "A">>, <<"-", "n", "a", "n">>, <<"-", "N", "a", "N">> }

IsNaTok(c) == c \in NaValues

IsIntTok(c) == Len(c) > 0 /\ \A i \in 1..Len(c) : c[i] \in DigitSet

DotAt(c) == CHOOSE i \in 1..Len(c) : c[i] = "."

\* digits with one decimal point and at least one digit ("7.0", "7.", ".5")
IsDecimalTok(c) ==
  /\ Len(c) > 1
  /\ Cardinality({i \in 1..Len(c) : c[i] = "."}) = 1
  /\ \A i \in 1..Len(c) : c[i] \in DigitSet \cup {"."}

IsFloatTok(c) == IsIntTok(c) \/ IsDecimalTok(c)

RECURSIVE StripZeros(_)
\* the fraction digits without trailing zeros
StripZeros(d) == IF d # <<>> /\ d[Len(d)] = "0" THEN StripZeros(Front(d)) ELSE d

ParseFloat(c) ==
  IF IsIntTok(c) THEN PyFloat(IntVal(c), <<>>)
  ELSE PyFloat(IntVal(SubSeq(c, 1, DotAt(c) - 1)), StripZeros(SubSeq(c, DotAt(c) + 1, Len(c))))

\* the dtype read_csv infers for a column from its cells (the cells of the
\* model hold no sign, no exponent and no boolean word)
ColumnType(cells) ==
  IF cells = <<>> THEN "object"
  ELSE IF \A i \in 1..Len(cells) : IsIntTok(cells[i]) THEN "int64"
  ELSE IF \A i \in 1..Len(cells) : IsNaTok(cells[i]) \/ IsFloatTok(cells[i]) THEN "float64"
  ELSE "object"

ParseCell(dtype, c) ==
  IF dtype = "int64" THEN PyInt(IntVal(c))
  ELSE IF IsNaTok(c) THEN PyNaN
  ELSE IF dtype = "float64" THEN ParseFloat(c)
  ELSE PyStr(c)

ParseColumn(cells) == [i \in 1..Len(cells) |-> ParseCell(ColumnType(cells), cells[i])]

\* the cells of column k of a CSV table
CellsOf(f, k) == [i \in 1..Len(f.rows) |-> f.rows[i][k]]

\* pd.read_csv(path): the DataFrame, column by column
read_csv(f) == [cols |-> f.cols, data |-> [k \in 1..Len(f.cols) |-> ParseColumn(CellsOf(f, k))]]

HasColumn(df, c) == \E k \in 1..Len(df.cols) : df.cols[k] = c

\* list(df.<c>)
ColumnList(df, c) == df.data[CHOOSE k \in 1..Len(df.cols) : df.cols[k] = c]

(***************************************************************************)
(* The model fields of CseStudents, as save() prepares a value for them.   *)
(***************************************************************************)
\* CharField: a str is kept, any other value v is stored as str(v)
CharField(v) ==
  IF v.t = "str" THEN v.s
  ELSE IF v.t = "int" THEN IntText(v.n)
  ELSE IF v.t = "nan" THEN <<"n", "a", "n">>
  ELSE IntText(v.n) \o <<".">> \o (IF v.fr = <<>> THEN <<"0">> ELSE v.fr)

\* IntegerField: int(v) succeeds
IntegerFieldOk(v) ==
  IF v.t = "str" THEN IsIntTok(v.s) ELSE v.t \in {"int", "float"}

\* IntegerField: the stored int(v)
IntegerField(v) == IF v.t = "str" THEN IntVal(v.s) ELSE v.n

\* CseStudents(name=..., age=..., email=..., pass_word=...) saved under a new id
CseStudents(id, name, age, email, pass_word) ==
  [id |-> id, name |-> CharField(name), age |-> IntegerField(age),
   email |-> CharField(email), pass_word |-> CharField(pass_word)]

(***************************************************************************)
(* The uploads the model draws from: tables of at most MaxRows rows with   *)
(* the header Name, Age, Email, Password, and tables of at most MaxRows    *)
(* rows that lack one of the four columns.                                 *)
(***************************************************************************)
Header == <<"Name", "Age", "Email", "Password">>

InputRows ==
  { << <<"a", "b">>, <<"2", "0">>, <<"e">>, <<"0", "7">> >>,
    << <<"a">>, <<"7">>, <<"e">>, <<>> >>,
    << <<"a">>, <<"2", "0">>, <<"f">>, <<"p">> >>,
    << <<"a", "b">>, <<"x">>, <<"e">>, <<"p">> >> }

RowSeqs == UNION {[1..n -> InputRows] : n \in 0..MaxRows}

GoodFiles == {[cols |-> Header, rows |-> r] : r \in RowSeqs}

DropAt(s, k) == SubSeq(s, 1, k - 1) \o SubSeq(s, k + 1, Len(s))

DropColumn(f, k) == [cols |-> DropAt(f.cols, k), rows |-> [i \in 1..Len(f.rows) |-> DropAt(f.rows[i], k)]]

\* n rows of the same student, the column k left out
BadFiles ==
  {DropColumn([cols |-> Header, rows |-> [i \in 1..n |-> << <<"a">>, <<"2", "0">>, <<"f">>, <<"p">> >>]], k) :
     n \in 0..MaxRows, k \in 1..4}

Uploads == GoodFiles \cup BadFiles

(***************************************************************************)
(* State.  files: the upload directory, a function from the names of the   *)
(* files that exist to their tables.  store: the CseStudents table in      *)
(* commit order, nextId its id sequence.  runs: the invocations of         *)
(* read_csv_file, each with its locals (name_list .. password_list, index) *)
(* and its outcome; rows, before and ids record what the run read, the     *)
(* size of the table when it started and the ids it was given.             *)
(* writable: whether files can be written in the upload directory.         *)
(* response: the response of the last request to a view other than         *)
(* read_csv_file, whose runs carry their own.                              *)
(* editing: the requests to edit_emp that have loaded their Employee and   *)
(* not yet saved it, by pk.  users: the table of the users; session: the   *)
(* id of the user logged in, 0 for none; registering: the user a request   *)
(* to register has saved and not yet logged in.                            *)
(***************************************************************************)
\* the response of a view: what it returns (body) or the error it raises (err)
Response(view, body, err) == [view |-> view, body |-> body, err |-> err]

NoResponse == Response("none", "none", "none")

\* the state beside the files: empty tables, no request made, the upload
\* directory writable
InitRest ==
  /\ store = <<>>
  /\ nextId = 1
  /\ runs = <<>>
  /\ uploads = 0
  /\ inflight = <<>>
  /\ response = NoResponse
  /\ employee = <<>>
  /\ employeeNextId = 1
  /\ editing = <<>>
  /\ users = <<>>
  /\ session = 0
  /\ registering = <<>>

Init ==
  /\ files = <<>>
  /\ writable = TRUE
  /\ InitRest

WriteFile(name, f) == [n \in DOMAIN files \cup {name} |-> IF n = name THEN f ELSE files[n]]

\* handle_uploaded_file: the upload is stored under its own name
upload_files(name, f) ==
  /\ uploads < MaxUploads
  /\ writable
  /\ uploads' = uploads + 1
  /\ files' = WriteFile(name, f)
  /\ response' = Response("upload_files", "File uploaded successfuly", "none")
  /\ UNCHANGED <<store, nextId, runs, inflight, writable, employee, employeeNextId, editing, users, session, registering>>

FailedRun(err) ==
  [pc |-> "failed", err |-> err, name_list |-> <<>>, age_list |-> <<>>, email_list |-> <<>>,
   password_list |-> <<>>, index |-> 0, rows |-> <<>>, before |-> Len(store), ids |-> <<>>,
   response |-> "none"]

LoadedRun(df, f) ==
  [pc |-> IF f.rows = <<>> THEN "done" ELSE "loop", err |-> "none",
   name_list |-> ColumnList(df, "Name"), age_list |-> ColumnList(df, "Age"),
   email_list |-> ColumnList(df, "Email"), password_list |-> ColumnList(df, "Password"),
   index |-> 0, rows |-> f.rows, before |-> Len(store), ids |-> <<>>,
   response |-> IF f.rows = <<>> THEN "csv_data.html" ELSE "none"]

\* BeginRun with the error of a missing column swallowed: the run ends at once
BeginRun_ColumnErrorSwallowed ==
  IF "data.csv" \notin DOMAIN files THEN FailedRun("NotFoundError")
  ELSE IF \E c \in {"Name", "Age", "Email", "Password"} : ~HasColumn(read_csv(files["data.csv"]), c)
    THEN [FailedRun("none") EXCEPT !.pc = "done", !.response = "csv_data.html"]
  ELSE LoadedRun(read_csv(files["data.csv"]), files["data.csv"])

\* BeginRun with a missing file taken for an empty one
BeginRun_MissingFileAsEmpty ==
  IF "data.csv" \notin DOMAIN files THEN [FailedRun("none") EXCEPT !.pc = "done", !.response = "csv_data.html"]
  ELSE IF \E c \in {"Name", "Age", "Email", "Password"} : ~HasColumn(read_csv(files["data.csv"]), c)
    THEN FailedRun("SchemaError")
  ELSE LoadedRun(read_csv(files["data.csv"]), files["data.csv"])

\* the file read is the other upload where there is one
BeginRun_OtherFileFirst ==
  IF "notes.csv" \in DOMAIN files
    THEN LoadedRun(read_csv(files["notes.csv"]), files["notes.csv"])
  ELSE IF "data.csv" \notin DOMAIN files THEN FailedRun("NotFoundError")
  ELSE LoadedRun(read_csv(files["data.csv"]), files["data.csv"])

\* read_csv_file up to its loop: read the file and take the four columns.
\* "NotFoundError" is the FileNotFoundError of pd.read_csv, "SchemaError" the
\* AttributeError of df.<column>, "ValidationError" the ValueError of int(age).
BeginRun ==
  IF "data.csv" \notin DOMAIN files THEN FailedRun("NotFoundError")
  ELSE IF \E c \in {"Name", "Age", "Email", "Password"} : ~HasColumn(read_csv(files["data.csv"]), c)
    THEN FailedRun("SchemaError")
  ELSE LoadedRun(read_csv(files["data.csv"]), files["data.csv"])

NoRunInProgress == \A r \in 1..Len(runs) : runs[r].pc # "loop"

read_csv_file_begin ==
  /\ Len(runs) < MaxRuns
  /\ runs' = Append(runs, BeginRun)
  /\ UNCHANGED <<files, store, nextId, uploads, inflight, writable, response, employee, employeeNextId, editing, users, session, registering>>

\* the record the loop body builds at the run's index
NewRecord(run, id) ==
  CseStudents(id, run.name_list[run.index + 1], run.age_list[run.index + 1],
              run.email_list[run.index + 1], run.password_list[run.index + 1])

\* the run after the save of its current row
Saved(run, id) ==
  [run EXCEPT !.index = run.index + 1, !.ids = Append(run.ids, id),
              !.pc = IF run.index + 1 = Len(run.name_list) THEN "done" ELSE "loop",
              !.response = IF run.index + 1 = Len(run.name_list) THEN "csv_data.html" ELSE "none"]

\* save as an upsert on (name, age, email, pass_word)
save_upsert(table, rec) ==
  IF \E i \in 1..Len(table) : table[i].name = rec.name /\ table[i].age = rec.age
                               /\ table[i].email = rec.email /\ table[i].pass_word = rec.pass_word
  THEN table ELSE Append(table, rec)

\* save() of the one object built before the loop: from its second call on it
\* is an UPDATE of the row the first call inserted
save_reused_instance(table, rec) ==
  IF table = <<>> THEN Append(table, rec)
  ELSE [table EXCEPT ![Len(table)] = [rec EXCEPT !.id = table[Len(table)].id]]

\* Model.save() of a new object: an INSERT, whatever the table holds already
save(table, rec) == Append(table, rec)

\* the loop as one bulk insert of all rows of the run
read_csv_file_save_batch(r) ==
  /\ runs[r].pc = "loop"
  /\ \A i \in 1..Len(runs[r].age_list) : IntegerFieldOk(runs[r].age_list[i])
  /\ store' = store \o [i \in 1..Len(runs[r].name_list) |->
                 CseStudents(nextId + i - 1, runs[r].name_list[i], runs[r].age_list[i],
                             runs[r].email_list[i], runs[r].password_list[i])]
  /\ nextId' = nextId + Len(runs[r].name_list)
  /\ runs' = [runs EXCEPT ![r].index = Len(runs[r].name_list), ![r].pc = "done",
                          ![r].response = "csv_data.html",
                          ![r].ids = [i \in 1..Len(runs[r].name_list) |-> nextId + i - 1]]
  /\ UNCHANGED <<files, uploads, inflight, writable, response, employee, employeeNextId, editing, users, session, registering>>

\* the loop run from the last row to the first
read_csv_file_save_last_first(r) ==
  /\ runs[r].pc = "loop"
  /\ IntegerFieldOk(runs[r].age_list[Len(runs[r].name_list) - runs[r].index])
  /\ store' = save(store, NewRecord([runs[r] EXCEPT !.index = Len(runs[r].name_list) - runs[r].index - 1],
                                    nextId))
  /\ nextId' = nextId + 1
  /\ runs' = [runs EXCEPT ![r] = Saved(runs[r], nextId)]
  /\ UNCHANGED <<files, uploads, inflight, writable, response, employee, employeeNextId, editing, users, session, registering>>

\* one iteration of the loop: cs_stds.save() commits one row
read_csv_file_save(r) ==
  /\ runs[r].pc = "loop"
  /\ IntegerFieldOk(runs[r].age_list[runs[r].index + 1])
  /\ store' = save(store, NewRecord(runs[r], nextId))
  /\ nextId' = nextId + 1
  /\ runs' = [runs EXCEPT ![r] = Saved(runs[r], nextId)]
  /\ UNCHANGED <<files, uploads, inflight, writable, response, employee, employeeNextId, editing, users, session, registering>>

\* a failed save() that takes the rows of its run back
read_csv_file_bad_age_rollback(r) ==
  /\ runs[r].pc = "loop"
  /\ ~IntegerFieldOk(runs[r].age_list[runs[r].index + 1])
  /\ runs' = [runs EXCEPT ![r].pc = "failed", ![r].err = "ValidationError"]
  /\ store' = SubSeq(store, 1, runs[r].before)
  /\ UNCHANGED <<files, nextId, uploads, inflight, writable, response, employee, employeeNextId, editing, users, session, registering>>

\* the error of save() caught in the loop and the row passed over
read_csv_file_bad_age_skipped(r) ==
  /\ runs[r].pc = "loop"
  /\ ~IntegerFieldOk(runs[r].age_list[runs[r].index + 1])
  /\ runs' = [runs EXCEPT ![r].index = runs[r].index + 1,
                          ![r].pc = IF runs[r].index + 1 = Len(runs[r].name_list) THEN "done" ELSE "loop",
                          ![r].response = IF runs[r].index + 1 = Len(runs[r].name_list)
                                          THEN "csv_data.html" ELSE "none"]
  /\ UNCHANGED <<files, store, nextId, uploads, inflight, writable, response, employee, employeeNextId, editing, users, session, registering>>

\* the row whose save() raises tried again and again
read_csv_file_bad_age_retry(r) ==
  /\ runs[r].pc = "loop"
  /\ ~IntegerFieldOk(runs[r].age_list[runs[r].index + 1])
  /\ UNCHANGED vars

\* one iteration of the loop: the Age of the row is no number and save() raises
read_csv_file_bad_age(r) ==
  /\ runs[r].pc = "loop"
  /\ ~IntegerFieldOk(runs[r].age_list[runs[r].index + 1])
  /\ runs' = [runs EXCEPT ![r].pc = "failed", ![r].err = "ValidationError"]
  /\ UNCHANGED <<files, store, nextId, uploads, inflight, writable, response, employee, employeeNextId, editing, users, session, registering>>

(***************************************************************************)
(* write_into_csv_file.                                                    *)
(***************************************************************************)
Records == {store[i] : i \in 1..Len(store)}

NameMin(S) == {x \in S : \A y \in S : TextLeq(x.name, y.name)}

\* of the records of S that agree in name, age, email and pass_word, the one of
\* the smallest id: the order of such records does not show in the values read
FirstOfEqual(S) ==
  {x \in S : \A y \in S :
     (y.name = x.name /\ y.age = x.age /\ y.email = x.email /\ y.pass_word = x.pass_word) => x.id <= y.id}

RECURSIVE AllOrders(_)
\* the query without its order_by: the records in any order
AllOrders(S) ==
  IF S = {} THEN {<<>>}
  ELSE UNION {{<<x>> \o t : t \in AllOrders(S \ {x})} : x \in FirstOfEqual(S)}

RECURSIVE OrderByName(_)
\* CseStudents.objects.all().order_by('name'): every order of the records that
\* is ascending by name; the order of records with equal names is the database's
OrderByName(S) ==
  IF S = {} THEN {<<>>}
  ELSE UNION {{<<x>> \o t : t \in OrderByName(S \ {x})} : x \in FirstOfEqual(NameMin(S))}

OutHeader == <<"", "name", "age", "email", "pass_word">>

\* to_csv with the loop begun at index 1: the first record is left out
to_csv_skip_first(db_details) ==
  [cols |-> OutHeader,
   rows |-> [j \in 1..(Len(db_details) - 1) |->
              <<IntText(j - 1), db_details[j + 1].name, IntText(db_details[j + 1].age),
                db_details[j + 1].email, db_details[j + 1].pass_word>>]]

\* to_csv with the ids (id_list) as the index of the DataFrame
to_csv_id_index(db_details) ==
  [cols |-> OutHeader,
   rows |-> [j \in 1..Len(db_details) |->
              <<IntText(db_details[j].id), db_details[j].name, IntText(db_details[j].age),
                db_details[j].email, db_details[j].pass_word>>]]

\* the four lists, pd.DataFrame(dict_of_csv_data) and df.to_csv(path)
to_csv(db_details) ==
  [cols |-> OutHeader,
   rows |-> [j \in 1..Len(db_details) |->
              <<IntText(j - 1), db_details[j].name, IntText(db_details[j].age),
                db_details[j].email, db_details[j].pass_word>>]]

\* the error of df.to_csv caught and "Success" returned all the same
write_into_csv_file_error_swallowed ==
  /\ \E db_details \in OrderByName(Records) :
       /\ files' = IF writable THEN WriteFile("file1.csv", to_csv(db_details)) ELSE files
       /\ response' = Response("write_into_csv_file", "Success", "none")
  /\ UNCHANGED <<store, nextId, runs, uploads, inflight, writable, employee, employeeNextId, editing, users, session, registering>>

\* the query is made and the lists are built whatever becomes of the file;
\* df.to_csv raises an OSError when it cannot open the path for writing
write_into_csv_file ==
  /\ \E db_details \in OrderByName(Records) :
       IF writable
       THEN /\ files' = WriteFile("file1.csv", to_csv(db_details))
            /\ response' = Response("write_into_csv_file", "Success", "none")
       ELSE /\ files' = files
            /\ response' = Response("write_into_csv_file", "none", "IOError")
  /\ UNCHANGED <<store, nextId, runs, uploads, inflight, writable, employee, employeeNextId, editing, users, session, registering>>

\* the importer and its uploads, the requests served one after the other
Next ==
  \/ (NoRunInProgress /\ \E f \in Uploads : upload_files("data.csv", f))
  \/ (NoRunInProgress /\ read_csv_file_begin)
  \/ \E r \in 1..Len(runs) : read_csv_file_save(r)
  \/ \E r \in 1..Len(runs) : read_csv_file_bad_age(r)

Spec == Init /\ [][Next]_vars

\* the importer and the exporter on one staged file
InitExport ==
  /\ \E f \in GoodFiles : files = [n \in {"data.csv"} |-> f]
  /\ writable \in BOOLEAN
  /\ InitRest

NextExport ==
  \/ (NoRunInProgress /\ read_csv_file_begin)
  \/ \E r \in 1..Len(runs) : read_csv_file_save(r)
  \/ \E r \in 1..Len(runs) : read_csv_file_bad_age(r)
  \/ (NoRunInProgress /\ write_into_csv_file)

SpecExport == InitExport /\ [][NextExport]_vars

\* the importer and the exporter on one staged file, the export served while
\* an import is in its loop as well
NextMid ==
  \/ (NoRunInProgress /\ read_csv_file_begin)
  \/ \E r \in 1..Len(runs) : read_csv_file_save(r)
  \/ \E r \in 1..Len(runs) : read_csv_file_bad_age(r)
  \/ write_into_csv_file

SpecMid == InitExport /\ [][NextMid]_vars

(***************************************************************************)
(* Overlapping requests.  Each request has its own connection in           *)
(* autocommit mode, so the INSERT of one save() is a transaction of its    *)
(* own: it takes the next value of the id sequence when it runs and its    *)
(* row is in the table when it has committed.  The sequence is not part of *)
(* the transaction, so the INSERTs of two requests may commit in either    *)
(* order.  inflight holds, for the runs that have an INSERT under way, the *)
(* id that INSERT has taken.                                               *)
(***************************************************************************)
\* the id taken as the largest id of the table plus one
read_csv_file_insert_max_id(r) ==
  /\ runs[r].pc = "loop"
  /\ r \notin DOMAIN inflight
  /\ IntegerFieldOk(runs[r].age_list[runs[r].index + 1])
  /\ inflight' = [k \in DOMAIN inflight \cup {r} |-> IF k = r THEN Len(store) + 1 ELSE inflight[k]]
  /\ nextId' = nextId + 1
  /\ UNCHANGED <<files, store, runs, uploads, writable, response, employee, employeeNextId, editing, users, session, registering>>

\* the loop under a lock on the table: a run waits for the runs begun before it
read_csv_file_insert_locked(r) ==
  /\ runs[r].pc = "loop"
  /\ \A k \in 1..(r - 1) : runs[k].pc # "loop"
  /\ r \notin DOMAIN inflight
  /\ IntegerFieldOk(runs[r].age_list[runs[r].index + 1])
  /\ inflight' = [k \in DOMAIN inflight \cup {r} |-> IF k = r THEN nextId ELSE inflight[k]]
  /\ nextId' = nextId + 1
  /\ UNCHANGED <<files, store, runs, uploads, writable, response, employee, employeeNextId, editing, users, session, registering>>

\* cs_stds.save(), first half: the INSERT of the row at the run's index takes
\* its id from the sequence
read_csv_file_insert(r) ==
  /\ runs[r].pc = "loop"
  /\ r \notin DOMAIN inflight
  /\ IntegerFieldOk(runs[r].age_list[runs[r].index + 1])
  /\ inflight' = [k \in DOMAIN inflight \cup {r} |-> IF k = r THEN nextId ELSE inflight[k]]
  /\ nextId' = nextId + 1
  /\ UNCHANGED <<files, store, runs, uploads, writable, response, employee, employeeNextId, editing, users, session, registering>>

\* the row written at the place the run counts it to have: the size of the
\* table when the run began plus the rows it has saved
read_csv_file_commit_at_offset(r) ==
  /\ r \in DOMAIN inflight
  /\ store' = Append(SubSeq(store, 1, runs[r].before + runs[r].index), NewRecord(runs[r], inflight[r]))
  /\ runs' = [runs EXCEPT ![r] = Saved(runs[r], inflight[r])]
  /\ inflight' = [k \in DOMAIN inflight \ {r} |-> inflight[k]]
  /\ UNCHANGED <<files, nextId, uploads, writable, response, employee, employeeNextId, editing, users, session, registering>>

\* cs_stds.save(), second half: the INSERT commits and save() returns
read_csv_file_commit(r) ==
  /\ r \in DOMAIN inflight
  /\ store' = save(store, NewRecord(runs[r], inflight[r]))
  /\ runs' = [runs EXCEPT ![r] = Saved(runs[r], inflight[r])]
  /\ inflight' = [k \in DOMAIN inflight \ {r} |-> inflight[k]]
  /\ UNCHANGED <<files, nextId, uploads, writable, response, employee, employeeNextId, editing, users, session, registering>>

\* three valid rows
SampleRows ==
  << << <<"a", "b">>, <<"2", "0">>, <<"e">>, <<"0", "7">> >>,
     << <<"a">>, <<"7">>, <<"e">>, <<>> >>,
     << <<"a">>, <<"2", "0">>, <<"f">>, <<"p">> >> >>

\* the files of the first n of these rows
SampleFiles ==
  {[cols |-> Header, rows |-> [i \in 1..n |-> SampleRows[((i - 1) % Len(SampleRows)) + 1]]] :
     n \in 0..MaxRows}

\* the names uploads come under
FileNames == {"data.csv", "notes.csv"}

InitConc ==
  /\ \E f \in SampleFiles : files = [n \in {"data.csv"} |-> f]
  /\ writable = TRUE
  /\ InitRest

\* no run has begun its loop and not ended it: an upload between two requests
\* that overlap is an upload before the first of them has saved a row (an
\* upload changes nothing a run in its loop reads, so it may be moved there)
NoRunUnderWay == \A r \in 1..Len(runs) : runs[r].pc = "loop" => (runs[r].index = 0 /\ r \notin DOMAIN inflight)

\* at most one run is in its loop: a run that begins now overlaps with one other
AtMostOneRun == \A a, b \in {r \in 1..Len(runs) : runs[r].pc = "loop"} : a = b

\* uploads and imports, the imports overlapping two at a time
NextConc ==
  \/ (NoRunUnderWay /\ \E f \in SampleFiles : upload_files("data.csv", f))
  \/ (AtMostOneRun /\ read_csv_file_begin)
  \/ \E r \in 1..Len(runs) : read_csv_file_insert(r)
  \/ \E r \in 1..Len(runs) : read_csv_file_commit(r)

SpecConc == InitConc /\ [][NextConc]_vars

(***************************************************************************)
(* upload_files as a whole.  A request is its method and its form: whether *)
(* StudentForm.is_valid() holds of it, and the file it carries, with its   *)
(* name, its header line and the chunks of its rows as f.chunks() gives    *)
(* them (the header line is in the first chunk).                           *)
(***************************************************************************)
RECURSIVE Chunkings(_)
\* the ways to cut the rows q into chunks, none of them empty
Chunkings(q) ==
  IF q = <<>> THEN {<<>>}
  ELSE UNION {{<<SubSeq(q, 1, k)>> \o t : t \in Chunkings(SubSeq(q, k + 1, Len(q)))} : k \in 1..Len(q)}

Forms ==
  {[valid |-> v, name |-> n, cols |-> Header, chunks |-> c] :
     v \in BOOLEAN, n \in FileNames, c \in UNION {Chunkings(g.rows) : g \in SampleFiles}}

\* the file opened anew for every chunk: only the last chunk stays
handle_uploaded_file_reopened(f) ==
  [cols |-> f.cols, rows |-> IF f.chunks = <<>> THEN <<>> ELSE f.chunks[Len(f.chunks)]]

RECURSIVE WriteChunks(_, _)
\* for chunk in f.chunks(): destination.write(chunk)
WriteChunks(destination, chunks) ==
  IF chunks = <<>> THEN destination
  ELSE WriteChunks(destination \o Head(chunks), Tail(chunks))

\* handle_uploaded_file: the file is opened with 'wb+', which empties it, and
\* the chunks are written to it one after the other
handle_uploaded_file(f) == [cols |-> f.cols, rows |-> WriteChunks(<<>>, f.chunks)]

\* upload_files: a POST whose form is valid stores the file and answers; a POST
\* whose form is not valid comes to the end of the view, which returns None
\* (a response with no body and no error); another method renders the form
upload_files_request(method, form) ==
  IF method = "POST" /\ form.valid
    THEN upload_files(form.name, handle_uploaded_file(form))
  ELSE /\ response' = IF method = "POST" THEN Response("upload_files", "none", "none")
                      ELSE Response("upload_files", "upload_file.html", "none")
       /\ UNCHANGED <<files, store, nextId, runs, uploads, inflight, writable, employee, employeeNextId,
                      editing, users, session, registering>>

\* uploads under two names and the importer, the requests served one after the
\* other; at first the directory is empty or holds a data.csv
InitNames ==
  /\ (files = <<>> \/ \E f \in SampleFiles : files = [n \in {"data.csv"} |-> f])
  /\ writable = TRUE
  /\ InitRest

NextNames ==
  \/ (NoRunInProgress /\ \E method \in {"GET", "POST"} : \E form \in Forms : upload_files_request(method, form))
  \/ (NoRunInProgress /\ read_csv_file_begin)
  \/ \E r \in 1..Len(runs) : read_csv_file_save(r)

SpecNames == InitNames /\ [][NextNames]_vars

\* the next step of the r-th request to read_csv_file
RunStep(r) == r \in 1..Len(runs) /\ (read_csv_file_save(r) \/ read_csv_file_bad_age(r))

\* a view runs in the thread that serves its request, from its first line to
\* its return or its error: a request that has begun goes on taking steps
SpecExportFair == SpecExport /\ \A r \in 1..MaxRuns : WF_vars(RunStep(r))

(***************************************************************************)
(* The Employee views.  employee is the Employee table in commit order,    *)
(* employeeNextId its id sequence.  A request is its method and its POST   *)
(* data, a function from the names of the form fields it carries to their  *)
(* texts.  The database is PostgreSQL: a text longer than its column is    *)
(* refused by the INSERT (Model.save() runs no validator), and the id the  *)
(* INSERT had taken is not given back.                                     *)
(***************************************************************************)
EmpIdMaxLength == 5

EmpNameMaxLength == 200

EmpGenderMaxLength == 10

EmpEmailMaxLength == 254

EmpDesignationMaxLength == 150

EmployeeFields == {"EmpId", "EmpName", "EmpGender", "EmpEmail", "EmpDesignation"}

\* the object Employee(EmpId=..., ...) with its id
Employee(id, POST) ==
  [id |-> id, EmpId |-> POST["EmpId"], EmpName |-> POST["EmpName"], EmpGender |-> POST["EmpGender"],
   EmpEmail |-> POST["EmpEmail"], EmpDesignation |-> POST["EmpDesignation"]]

\* every text fits the column it goes to
FitsColumns(POST) ==
  /\ Len(POST["EmpId"]) <= EmpIdMaxLength
  /\ Len(POST["EmpName"]) <= EmpNameMaxLength
  /\ Len(POST["EmpGender"]) <= EmpGenderMaxLength
  /\ Len(POST["EmpEmail"]) <= EmpEmailMaxLength
  /\ Len(POST["EmpDesignation"]) <= EmpDesignationMaxLength

\* the POST data of the forms that carry all five fields
FullPosts ==
  {[EmpId |-> a, EmpName |-> b, EmpGender |-> c, EmpEmail |-> <<"e">>, EmpDesignation |-> <<"d">>] :
     a \in {<<"1">>, <<"1", "2", "3", "4", "5", "6">>}, b \in {<<"a">>, <<"b">>, <<"a", "b">>},
     c \in {<<"f">>, <<"m">>}}

\* the POST data of one form with one of its fields left out
PartPosts ==
  {[k \in EmployeeFields \ {m} |->
      [EmpId |-> <<"1">>, EmpName |-> <<"a">>, EmpGender |-> <<"f">>, EmpEmail |-> <<"e">>,
       EmpDesignation |-> <<"d">>][k]] : m \in EmployeeFields}

Posts == FullPosts \cup PartPosts

\* insert_emp: a POST reads the five fields (a field that is not there raises
\* the MultiValueDictKeyError), builds the Employee and saves it
insert_emp(method, POST) ==
  /\ IF method # "POST"
       THEN /\ response' = Response("insert_emp", "insert.html", "none")
            /\ UNCHANGED <<employee, employeeNextId>>
     ELSE IF \E k \in EmployeeFields : k \notin DOMAIN POST
       THEN /\ response' = Response("insert_emp", "none", "MultiValueDictKeyError")
            /\ UNCHANGED <<employee, employeeNextId>>
     ELSE /\ employeeNextId <= MaxEmployees
          /\ employeeNextId' = employeeNextId + 1
          /\ IF FitsColumns(POST)
               THEN /\ employee' = Append(employee, Employee(employeeNextId, POST))
                    /\ response' = Response("insert_emp", "redirect show/", "none")
               ELSE /\ employee' = employee
                    /\ response' = Response("insert_emp", "none", "DataError")
  /\ UNCHANGED <<files, store, nextId, runs, uploads, inflight, writable, editing, users, session,
                 registering>>

\* the places of the Employee table where the record of id pk is
EmployeeAt(pk) == {i \in 1..Len(employee) : employee[i].id = pk}

\* the table without its record at place i
DeleteAt(table, i) == SubSeq(table, 1, i - 1) \o SubSeq(table, i + 1, Len(table))

\* the pks of the requests: the ids given out and one more
Pks == 1..(MaxEmployees + 1)

\* edit_emp with the save in a finally: the fields assigned before the one the
\* POST lacks are saved
edit_emp_saves_assigned(pk, method, POST) ==
  /\ IF EmployeeAt(pk) = {}
       THEN /\ response' = Response("edit_emp", "none", "DoesNotExist")
            /\ employee' = employee
     ELSE IF method # "POST"
       THEN /\ response' = Response("edit_emp", "edit.html", "none")
            /\ employee' = employee
     ELSE IF \E k \in EmployeeFields : k \notin DOMAIN POST
       THEN /\ response' = Response("edit_emp", "none", "MultiValueDictKeyError")
            /\ employee' =
                 LET order == <<"EmpId", "EmpName", "EmpGender", "EmpEmail", "EmpDesignation">>
                     assigned == {order[j] : j \in {j \in 1..5 : \A i \in 1..j : order[i] \in DOMAIN POST}}
                 IN  [i \in 1..Len(employee) |->
                       IF employee[i].id = pk
                       THEN [k \in DOMAIN employee[i] |->
                              IF k \in assigned THEN POST[k] ELSE employee[i][k]]
                       ELSE employee[i]]
     ELSE IF ~FitsColumns(POST)
       THEN /\ response' = Response("edit_emp", "none", "DataError")
            /\ employee' = employee
     ELSE /\ employee' = [i \in 1..Len(employee) |->
                            IF employee[i].id = pk THEN Employee(pk, POST) ELSE employee[i]]
          /\ response' = Response("edit_emp", "redirect /show", "none")
  /\ UNCHANGED <<files, store, nextId, runs, uploads, inflight, writable, employeeNextId, editing,
                 users, session, registering>>

\* edit_emp served without another request in between: Employee.objects.get
\* raises DoesNotExist where there is no such record, whatever the method; a
\* POST assigns the five fields to the loaded object one by one and saves it,
\* an UPDATE of the row
edit_emp(pk, method, POST) ==
  /\ IF EmployeeAt(pk) = {}
       THEN /\ response' = Response("edit_emp", "none", "DoesNotExist")
            /\ employee' = employee
     ELSE IF method # "POST"
       THEN /\ response' = Response("edit_emp", "edit.html", "none")
            /\ employee' = employee
     ELSE IF \E k \in EmployeeFields : k \notin DOMAIN POST
       THEN /\ response' = Response("edit_emp", "none", "MultiValueDictKeyError")
            /\ employee' = employee
     ELSE IF ~FitsColumns(POST)
       THEN /\ response' = Response("edit_emp", "none", "DataError")
            /\ employee' = employee
     ELSE /\ employee' = [i \in 1..Len(employee) |->
                            IF employee[i].id = pk THEN Employee(pk, POST) ELSE employee[i]]
          /\ response' = Response("edit_emp", "redirect /show", "none")
  /\ UNCHANGED <<files, store, nextId, runs, uploads, inflight, writable, employeeNextId, editing,
                 users, session, registering>>

\* remove_emp without its test of the method: the request for the page deletes
remove_emp_any_method(pk, method) ==
  /\ IF EmployeeAt(pk) = {}
       THEN /\ response' = Response("remove_emp", "none", "DoesNotExist")
            /\ employee' = employee
     ELSE /\ employee' = DeleteAt(employee, CHOOSE i \in EmployeeAt(pk) : TRUE)
          /\ response' = IF method = "POST" THEN Response("remove_emp", "redirect /show", "none")
                         ELSE Response("remove_emp", "delete.html", "none")
  /\ UNCHANGED <<files, store, nextId, runs, uploads, inflight, writable, employeeNextId, editing,
                 users, session, registering>>

\* remove_emp with the lookup inside the POST branch: the page is rendered
\* without a look at the table
remove_emp_method_first(pk, method) ==
  /\ IF method # "POST"
       THEN /\ response' = Response("remove_emp", "delete.html", "none")
            /\ employee' = employee
     ELSE IF EmployeeAt(pk) = {}
       THEN /\ response' = Response("remove_emp", "none", "DoesNotExist")
            /\ employee' = employee
     ELSE /\ employee' = DeleteAt(employee, CHOOSE i \in EmployeeAt(pk) : TRUE)
          /\ response' = Response("remove_emp", "redirect /show", "none")
  /\ UNCHANGED <<files, store, nextId, runs, uploads, inflight, writable, employeeNextId, editing,
                 users, session, registering>>

\* remove_emp: the same lookup; a POST deletes the record
remove_emp(pk, method) ==
  /\ IF EmployeeAt(pk) = {}
       THEN /\ response' = Response("remove_emp", "none", "DoesNotExist")
            /\ employee' = employee
     ELSE IF method # "POST"
       THEN /\ response' = Response("remove_emp", "delete.html", "none")
            /\ employee' = employee
     ELSE /\ employee' = DeleteAt(employee, CHOOSE i \in EmployeeAt(pk) : TRUE)
          /\ response' = Response("remove_emp", "redirect /show", "none")
  /\ UNCHANGED <<files, store, nextId, runs, uploads, inflight, writable, employeeNextId, editing,
                 users, session, registering>>

\* the Employee views, the requests served one after the other
NextEmp ==
  \/ \E method \in {"GET", "POST"} : \E POST \in Posts : insert_emp(method, POST)
  \/ \E pk \in Pks : \E method \in {"GET", "POST"} : \E POST \in Posts : edit_emp(pk, method, POST)
  \/ \E pk \in Pks : \E method \in {"GET", "POST"} : remove_emp(pk, method)

SpecEmp == Init /\ [][NextEmp]_vars

(***************************************************************************)
(* The Employee views with requests served at the same time: edit_emp is   *)
(* its lookup and then its save, and other requests come in between.       *)
(* editing holds, by pk, the object a POST to edit_emp has loaded and not  *)
(* yet saved; one such request per pk is followed.                         *)
(***************************************************************************)

\* edit_emp up to the test of the method: the lookup, and the page for
\* another method than POST
edit_emp_load(pk, method) ==
  /\ pk \notin DOMAIN editing
  /\ IF EmployeeAt(pk) = {}
       THEN /\ response' = Response("edit_emp", "none", "DoesNotExist")
            /\ editing' = editing
     ELSE IF method # "POST"
       THEN /\ response' = Response("edit_emp", "edit.html", "none")
            /\ editing' = editing
     ELSE /\ editing' = [k \in DOMAIN editing \cup {pk} |->
                           IF k = pk THEN employee[CHOOSE i \in EmployeeAt(pk) : TRUE] ELSE editing[k]]
          /\ response' = response
  /\ UNCHANGED <<files, store, nextId, runs, uploads, inflight, writable, employee, employeeNextId,
                 users, session, registering>>

\* Model.save() of an object that has its pk: an UPDATE of the row of that pk
\* and, where no row was updated, an INSERT of the object under its pk
save_employee(table, object) ==
  IF \E i \in 1..Len(table) : table[i].id = object.id
  THEN [i \in 1..Len(table) |-> IF table[i].id = object.id THEN object ELSE table[i]]
  ELSE Append(table, object)

\* edit_emp from the assignments on: the five fields are read from the POST
\* and the loaded object is saved
edit_emp_save(pk, POST) ==
  /\ pk \in DOMAIN editing
  /\ editing' = [k \in DOMAIN editing \ {pk} |-> editing[k]]
  /\ IF \E k \in EmployeeFields : k \notin DOMAIN POST
       THEN /\ response' = Response("edit_emp", "none", "MultiValueDictKeyError")
            /\ employee' = employee
     ELSE IF ~FitsColumns(POST)
       THEN /\ response' = Response("edit_emp", "none", "DataError")
            /\ employee' = employee
     ELSE /\ employee' = save_employee(employee, Employee(editing[pk].id, POST))
          /\ response' = Response("edit_emp", "redirect /show", "none")
  /\ UNCHANGED <<files, store, nextId, runs, uploads, inflight, writable, employeeNextId,
                 users, session, registering>>

NextEmpConc ==
  \/ \E method \in {"GET", "POST"} : \E POST \in Posts : insert_emp(method, POST)
  \/ \E pk \in Pks : \E method \in {"GET", "POST"} : edit_emp_load(pk, method)
  \/ \E pk \in Pks : \E POST \in Posts : edit_emp_save(pk, POST)
  \/ \E pk \in Pks : \E method \in {"GET", "POST"} : remove_emp(pk, method)

SpecEmpConc == Init /\ [][NextEmpConc]_vars

(***************************************************************************)
(* register.  A request is its method and its form: whether the checks of  *)
(* the form's fields pass (ok), a username and a password.  The form is a  *)
(* ModelForm of User: it is valid when its fields pass and no user has its *)
(* username, and save(commit=False) gives the User of its fields, not yet  *)
(* in the table.                                                           *)
(***************************************************************************)
RegistrationForms ==
  [ok : BOOLEAN, username : {<<"u">>, <<"v">>, <<"w">>}, password : {<<"p">>, <<"q">>}]

is_valid(form) == form.ok /\ \A i \in 1..Len(users) : users[i].username # form.username

\* user.set_password(raw): the password field holds the hash of raw, written
\* as algorithm, "$" and digest
set_password(raw) == <<"h", "$">> \o raw

\* the names of the URL patterns of Employee/urls.py and of the URLconfs it
\* includes
UrlNames ==
  {"index", "insert-emp", "show-emp", "edit-emp", "remove-emp", "upload_files", "read_csv", "write_csv",
   "http_response", "my_json_view", "my_template_view", "my_redirect_view", "stream_view",
   "custom_header_view", "login", "logout", "password_change", "password_change_done",
   "password_reset", "password_reset_done", "password_reset_confirm", "password_reset_complete",
   "api-token-auth", "verify_token"}

\* register up to user.save(): another method than POST, or a form that is not
\* valid, renders the page; a valid form gives the user, whose password is
\* set to its hash and who is saved
register_save(method, form) ==
  /\ registering = <<>>
  /\ IF method = "POST" /\ is_valid(form)
       THEN /\ Len(users) < MaxUsers
            /\ users' = Append(users, [id |-> Len(users) + 1, username |-> form.username,
                                        password |-> set_password(form.password)])
            /\ registering' = <<Len(users) + 1>>
            /\ response' = response
       ELSE /\ response' = Response("register", "accounts/register.html", "none")
            /\ UNCHANGED <<users, registering>>
  /\ UNCHANGED <<files, store, nextId, runs, uploads, inflight, writable, employee, employeeNextId,
                 editing, session>>

\* register from login(request, user) on: the saved user is logged in, and
\* redirect('profile') looks for the URL pattern of that name
register_login ==
  /\ registering # <<>>
  /\ session' = registering[1]
  /\ registering' = <<>>
  /\ response' = IF "profile" \in UrlNames THEN Response("register", "redirect profile", "none")
                 ELSE Response("register", "none", "NoReverseMatch")
  /\ UNCHANGED <<files, store, nextId, runs, uploads, inflight, writable, employee, employeeNextId,
                 editing, users>>

NextAuth ==
  \/ \E method \in {"GET", "POST"} : \E form \in RegistrationForms : register_save(method, form)
  \/ register_login

SpecAuth == Init /\ [][NextAuth]_vars

TypeOK ==
  /\ uploads \in 0..MaxUploads
  /\ nextId = Len(store) + Cardinality(DOMAIN inflight) + 1
  /\ writable \in BOOLEAN
  /\ Len(employee) < employeeNextId /\ employeeNextId <= MaxEmployees + 1
  /\ Len(runs) <= MaxRuns

(***************************************************************************)
(* Vocabulary of the properties.                                           *)
(***************************************************************************)
\* the (name, age, email, pass_word) of a record
Tuple(rec) == <<rec.name, rec.age, rec.email, rec.pass_word>>

\* how often the tuple x occurs among the records of the sequence q
Count(x, q) == Cardinality({i \in 1..Len(q) : Tuple(q[i]) = x})

\* the size of the table when run r had ended (runs follow one another)
EndOf(r) == IF r = Len(runs) THEN Len(store) ELSE runs[r + 1].before

\* the records a complete import of the table f creates in an empty store
ImportAll(f) ==
  [i \in 1..Len(f.rows) |->
    CseStudents(i, ColumnList(read_csv(f), "Name")[i], ColumnList(read_csv(f), "Age")[i],
                ColumnList(read_csv(f), "Email")[i], ColumnList(read_csv(f), "Password")[i])]

\* the record at position i of the table is the one the i-th input row describes
RowStored(row, rec) ==
  /\ rec.name = row[1]
  /\ IsIntTok(row[2]) /\ rec.age = IntVal(row[2])
  /\ rec.email = row[3]
  /\ rec.pass_word = row[4]

\* a valid input: every row has a text in each column and a number for its Age
ValidRows(rows) ==
  \A i \in 1..Len(rows) : IsIntTok(rows[i][2]) /\ \A k \in 1..4 : rows[i][k] # <<>>

\* C1: a run of read_csv_file that completes on a valid N-row file has added
\* exactly N records, and the i-th of them, in id order, carries the Name, Age,
\* Email and Password of the i-th input row
C1_RowsStoredAsRead ==
  \A r \in 1..Len(runs) : (runs[r].pc = "done" /\ ValidRows(runs[r].rows)) =>
    /\ Len(runs[r].ids) = Len(runs[r].rows)
    /\ EndOf(r) = runs[r].before + Len(runs[r].rows)
    /\ \A i \in 1..Len(runs[r].rows) :
         /\ store[runs[r].before + i].id = runs[r].ids[i]
         /\ RowStored(runs[r].rows[i], store[runs[r].before + i])

\* C2: m completed runs in a row on the same N-row file, begun with K records,
\* leave K + m*N records, and every record of the file is there m times more
\* often than before
C2_NoDeduplication ==
  \A i \in 1..Len(runs) : \A j \in i..Len(runs) :
    (\A k \in i..j : runs[k].pc = "done" /\ runs[k].rows = runs[i].rows) =>
      /\ EndOf(j) = runs[i].before + (j - i + 1) * Len(runs[i].rows)
      /\ \A l \in 1..Len(runs[i].rows) :
           Count(Tuple(store[runs[i].before + l]), SubSeq(store, 1, EndOf(j)))
             = Count(Tuple(store[runs[i].before + l]), SubSeq(store, 1, runs[i].before))
               + (j - i + 1) * Count(Tuple(store[runs[i].before + l]),
                                     SubSeq(store, runs[i].before + 1, runs[i].before + Len(runs[i].rows)))

\* two completed runs on the same file of MaxRows rows
C2_Witness ==
  /\ Len(runs) >= 2
  /\ runs[1].pc = "done" /\ runs[2].pc = "done"
  /\ runs[1].rows = runs[2].rows
  /\ Len(runs[1].rows) = MaxRows
  /\ Len(store) = 2 * MaxRows

\* C3: the rows of the exported file are in non-decreasing lexical order of name
C3_ExportSortedByName ==
  "file1.csv" \in DOMAIN files =>
    \A j \in 1..(Len(files["file1.csv"].rows) - 1) :
      TextLeq(files["file1.csv"].rows[j][2], files["file1.csv"].rows[j + 1][2])

\* an export of a table whose commit order is not the name order
C3_Witness ==
  /\ "file1.csv" \in DOMAIN files
  /\ Len(files["file1.csv"].rows) = Len(store)
  /\ \E i \in 1..Len(store) : \E j \in (i + 1)..Len(store) : ~TextLeq(store[i].name, store[j].name)

\* the exported table under the importer's header, the index column dropped
RenameBack(f) == [cols |-> Header, rows |-> [i \in 1..Len(f.rows) |-> Tail(f.rows[i])]]

\* the bag of the (name, age, email, pass_word) of the records of q
TupleBag(q) == [x \in {Tuple(q[i]) : i \in 1..Len(q)} |-> Count(x, q)]

\* a step that writes upload/file1.csv, as only write_into_csv_file does
Exported ==
  /\ "file1.csv" \in DOMAIN files'
  /\ ("file1.csv" \in DOMAIN files => files'["file1.csv"] # files["file1.csv"])

\* C4: round trip: the export of the table, renamed back and imported into an
\* empty store, gives the table's bag of (name, age, email, pass_word)
C4_RoundTrip ==
  [][Exported => TupleBag(ImportAll(RenameBack(files'["file1.csv"]))) = TupleBag(store)]_vars

\* the last run of read_csv_file
LastRun == runs[Len(runs)]

MissingColumn ==
  /\ "data.csv" \in DOMAIN files
  /\ \E c \in {"Name", "Age", "Email", "Password"} : \A k \in 1..Len(files["data.csv"].cols) : files["data.csv"].cols[k] # c

\* C5: a run on a file that lacks one of the columns Name, Age, Email, Password
\* fails with SchemaError and leaves the table as it was
C5_MissingColumnFails ==
  [][(read_csv_file_begin /\ MissingColumn) =>
       /\ runs'[Len(runs')].pc = "failed" /\ runs'[Len(runs')].err = "SchemaError"
       /\ runs'[Len(runs')].ids = <<>>
       /\ store' = store]_vars

\* a failed run on a file of MaxRows rows without the Password column
C5_Witness ==
  /\ Len(runs) >= 1 /\ LastRun.err = "SchemaError"
  /\ "data.csv" \in DOMAIN files
  /\ files["data.csv"].cols = <<"Name", "Age", "Email">>
  /\ Len(files["data.csv"].rows) = MaxRows
  /\ Len(store) = LastRun.before

\* C6: a run that finds no upload/data.csv fails with NotFoundError and leaves
\* the table as it was
C6_MissingFileFails ==
  [][(read_csv_file_begin /\ "data.csv" \notin DOMAIN files) =>
       /\ runs'[Len(runs')].pc = "failed" /\ runs'[Len(runs')].err = "NotFoundError"
       /\ runs'[Len(runs')].ids = <<>>
       /\ store' = store]_vars

\* a run that found no file
C6_Witness ==
  /\ Len(runs) >= 1 /\ LastRun.err = "NotFoundError"
  /\ "data.csv" \notin DOMAIN files
  /\ store = <<>>

\* C7: no rollback: a run that failed at its row k has its records of the rows
\* 1..k-1 in the table, and none of a later row
C7_NoRollback ==
  \A r \in 1..Len(runs) : (runs[r].pc = "failed" /\ runs[r].rows # <<>>) =>
    /\ Len(runs[r].ids) = runs[r].index
    /\ runs[r].index < Len(runs[r].rows)
    /\ EndOf(r) = runs[r].before + runs[r].index
    /\ Len(store) >= EndOf(r)
    /\ \A i \in 1..runs[r].index :
         /\ store[runs[r].before + i].id = runs[r].ids[i]
         /\ Tuple(store[runs[r].before + i]) = Tuple(ImportAll([cols |-> Header, rows |-> runs[r].rows])[i])

\* a run that failed at its last row after it had stored the rows before it,
\* and a later run
C7_Witness ==
  /\ Len(runs) >= 2
  /\ runs[1].pc = "failed" /\ runs[1].index >= 1
  /\ Len(store) > runs[1].index

\* C8: the table changes only by the commit of one row of a run: the row at the
\* run's index, so the j-th commit of a run stores its row j
C8_OneCommitPerRow ==
  [][store' # store =>
       \E r \in 1..Len(runs) :
         /\ runs[r].pc = "loop"
         /\ Len(runs[r].ids) = runs[r].index
         /\ runs'[r].index = runs[r].index + 1
         /\ runs'[r].ids = Append(runs[r].ids, nextId)
         /\ Len(store') = Len(store) + 1
         /\ SubSeq(store', 1, Len(store)) = store
         /\ store'[Len(store')].id = nextId
         /\ Tuple(store'[Len(store')])
              = Tuple(ImportAll([cols |-> Header, rows |-> runs[r].rows])[runs[r].index + 1])
         /\ (runs'[r].pc = "done") = (runs'[r].index = Len(runs[r].rows))]_vars

\* a completed run of MaxRows commits
C8_Witness ==
  /\ Len(runs) >= 1
  /\ LastRun.pc = "done"
  /\ LastRun.index = MaxRows
  /\ Len(LastRun.ids) = MaxRows

\* the (name, age, email, pass_word) of the rows of an exported file
FileTuples(f) == [j \in 1..Len(f.rows) |-> [name |-> f.rows[j][2], age |-> IntVal(f.rows[j][3]), email |-> f.rows[j][4], pass_word |-> f.rows[j][5]]]

\* C9: the export writes one row per record of the table, and the rows carry
\* the table's bag of (name, age, email, pass_word)
C9_ExportFullScan ==
  [][Exported =>
       /\ Len(files'["file1.csv"].rows) = Len(store)
       /\ TupleBag(FileTuples(files'["file1.csv"])) = TupleBag(store)]_vars

\* an export of a table that holds the same tuple twice
C9_Witness ==
  /\ "file1.csv" \in DOMAIN files
  /\ Len(files["file1.csv"].rows) = Len(store)
  /\ \E i \in 1..Len(store) : \E j \in (i + 1)..Len(store) : Tuple(store[i]) = Tuple(store[j])

\* C10: the first column of the j-th exported row, counted from 0, is j
C10_IndexColumn ==
  "file1.csv" \in DOMAIN files =>
    \A j \in 1..Len(files["file1.csv"].rows) : files["file1.csv"].rows[j][1] = IntText(j - 1)

\* an export whose first row is not the record of the smallest id
C10_Witness ==
  /\ "file1.csv" \in DOMAIN files
  /\ Len(files["file1.csv"].rows) = Len(store)
  /\ Len(store) >= 2
  /\ files["file1.csv"].rows[1][2] # store[1].name

\* C11: a record is never updated or deleted: every record of the table is in
\* the table of the next state, under its id and with its four fields, once;
\* read_csv_file only adds records and write_into_csv_file leaves the table as
\* it is
C11_RecordsNeverChange ==
  [][/\ \A i \in 1..Len(store) :
          /\ Cardinality({j \in 1..Len(store') : store'[j].id = store[i].id}) = 1
          /\ \E j \in 1..Len(store') : store'[j] = store[i]
     /\ Len(store') >= Len(store)
     /\ Exported => store' = store]_vars

\* a run, an export and a second run that added to the exported records
C11_Witness ==
  /\ Len(runs) = 2 /\ runs[1].pc = "done" /\ runs[2].pc = "done"
  /\ "file1.csv" \in DOMAIN files
  /\ Len(files["file1.csv"].rows) = Len(runs[1].rows)
  /\ Len(runs[1].rows) > 0
  /\ Len(store) > Len(files["file1.csv"].rows)

\* the ids run r was given
RunIds(r) == {runs[r].ids[i] : i \in 1..Len(runs[r].ids)}

\* the record run r builds from its i-th row
RowRecord(r, i) ==
  CseStudents(runs[r].ids[i], runs[r].name_list[i], runs[r].age_list[i],
              runs[r].email_list[i], runs[r].password_list[i])

\* the places of the table where the record of id x is
Places(x) == {j \in 1..Len(store) : store[j].id = x}

\* run b began before run a had committed its last row
Overlap(a, b) == a < b /\ \E x \in RunIds(a) : \A j \in Places(x) : j > runs[b].before

\* C12: two imports that overlap lose and duplicate nothing: when both have
\* ended, the import of N rows has N records and the import of M rows M, no
\* record is of both, each row's record is in the table once, and the ids of
\* each import ascend in the order of its rows; the table holds the records of
\* the imports and no other
C12_OverlapLosesNothing ==
  /\ \A a \in 1..Len(runs) : \A b \in 1..Len(runs) :
       (Overlap(a, b) /\ runs[a].pc = "done" /\ runs[b].pc = "done") =>
         /\ RunIds(a) \cap RunIds(b) = {}
         /\ Cardinality(RunIds(a) \cup RunIds(b)) = Len(runs[a].rows) + Len(runs[b].rows)
         /\ \A r \in {a, b} :
              /\ Len(runs[r].ids) = Len(runs[r].rows)
              /\ \A i \in 1..Len(runs[r].rows) :
                   /\ Cardinality(Places(runs[r].ids[i])) = 1
                   /\ \A j \in Places(runs[r].ids[i]) : store[j] = RowRecord(r, i)
                   /\ \A k \in (i + 1)..Len(runs[r].rows) : runs[r].ids[i] < runs[r].ids[k]
  /\ (\A r \in 1..Len(runs) : runs[r].pc = "done") =>
       /\ Len(store) = Cardinality(UNION {RunIds(r) : r \in 1..Len(runs)})
       /\ \A j \in 1..Len(store) : \E r \in 1..Len(runs) : store[j].id \in RunIds(r)

\* two imports of files of different sizes that overlapped and have ended
C12_Witness ==
  \E a \in 1..Len(runs) : \E b \in 1..Len(runs) :
    /\ Overlap(a, b) /\ runs[a].pc = "done" /\ runs[b].pc = "done"
    /\ Len(runs[a].rows) # Len(runs[b].rows)
    /\ Len(runs[a].rows) > 0 /\ Len(runs[b].rows) > 0
    /\ \E x \in RunIds(a) : \E y \in RunIds(b) : \E i \in Places(x) : \E j \in Places(y) : j < i

\* C13: imports that overlap are not kept apart: while two runs are in their
\* loops each of them can take its next step, whatever the other has done
C13_OverlapNotIsolated ==
  \A a \in 1..Len(runs) : \A b \in 1..Len(runs) :
    (a # b /\ runs[a].pc = "loop" /\ runs[b].pc = "loop") =>
      ENABLED (read_csv_file_insert(a) \/ read_csv_file_commit(a))

\* in the order of the ids a record of one import lies between two records of
\* another, both imports of two rows or more
C13_Witness ==
  \E a \in 1..Len(runs) : \E b \in 1..Len(runs) :
    /\ a # b /\ Len(runs[a].rows) >= 2 /\ Len(runs[b].rows) >= 2
    /\ \E x \in RunIds(a) : \E y \in RunIds(b) : \E z \in RunIds(a) :
         /\ x < y /\ y < z
         /\ Places(x) # {} /\ Places(y) # {} /\ Places(z) # {}

\* C14 as stated: the ids of the table are pairwise distinct, and a record
\* committed later has a larger id than every record committed before it
C14_IdsFollowCommitOrder ==
  /\ \A i \in 1..Len(store) : \A j \in 1..Len(store) : i # j => store[i].id # store[j].id
  /\ \A i \in 1..Len(store) : \A j \in (i + 1)..Len(store) : store[i].id < store[j].id

\* C14, amended: the ids of the table are pairwise distinct; a record has a
\* larger id than every record that was committed before its import began, and
\* than every record its own import committed before it
C14_IdsDistinctOrderedPerImport ==
  /\ \A i \in 1..Len(store) : \A j \in 1..Len(store) : i # j => store[i].id # store[j].id
  /\ \A r \in 1..Len(runs) : \A k \in 1..Len(runs[r].ids) : \A j \in Places(runs[r].ids[k]) :
       /\ \A i \in 1..runs[r].before : store[i].id < store[j].id
       /\ \A l \in 1..(k - 1) : \A i \in Places(runs[r].ids[l]) : i < j /\ store[i].id < store[j].id

\* two overlapping imports have committed rows against the order of their ids,
\* and a later import has added to them
C14_Witness ==
  /\ \E i \in 1..Len(store) : \E j \in (i + 1)..Len(store) : store[i].id > store[j].id
  /\ \E r \in 1..Len(runs) : Len(runs[r].ids) >= 2

\* the rows of run r whose Age is no number
BadAgeRows(r) == {k \in 1..Len(runs[r].rows) : ~IsIntTok(runs[r].rows[k][2])}

\* the first of them
FirstBadAge(r) == CHOOSE k \in BadAgeRows(r) : \A l \in BadAgeRows(r) : k <= l

C16_ExportWriteFails ==
  /\ [](~writable => (response.body # "Success" /\ "file1.csv" \notin DOMAIN files))
  /\ [][(~writable /\ response' # response) =>
          /\ response' = Response("write_into_csv_file", "none", "IOError")
          /\ store' = store
          /\ files' = files]_vars

\* an export of a table of records that failed on the path
C16_Witness ==
  /\ ~writable
  /\ response.view = "write_into_csv_file" /\ response.err = "IOError"
  /\ Len(store) >= 1

\* C17: every request ends within itself: a run of read_csv_file that is in
\* its loop comes to its response or to its error, after no more commits than
\* its file has rows; a run that has ended has its response or its error, has
\* no step left and never changes again (no retry, no resumption, nothing left
\* to do in the background); the export has read no more rows than the table has
C17_RequestsTerminate ==
  /\ \A r \in 1..MaxRuns :
       (Len(runs) >= r /\ runs[r].pc = "loop") ~> (Len(runs) >= r /\ runs[r].pc \in {"done", "failed"})
  /\ [](\A r \in 1..Len(runs) :
          /\ Len(runs[r].ids) = runs[r].index /\ runs[r].index <= Len(runs[r].rows)
          /\ runs[r].pc = "done" => (runs[r].response = "csv_data.html" /\ runs[r].err = "none")
          /\ runs[r].pc = "failed" => (runs[r].response = "none" /\ runs[r].err # "none")
          /\ runs[r].pc # "loop" => ~ENABLED RunStep(r))
  /\ []("file1.csv" \in DOMAIN files => Len(files["file1.csv"].rows) <= Len(store))
  /\ [](response.view = "write_into_csv_file" => (response.body = "Success" \/ response.err = "IOError"))
  /\ [][\A r \in 1..Len(runs) : runs[r].pc # "loop" => runs'[r] = runs[r]]_vars

\* a run of MaxRows rows that has ended with its response, an export after it
C17_Witness ==
  /\ Len(runs) >= 1 /\ runs[1].pc = "done"
  /\ Len(runs[1].rows) = MaxRows /\ Len(runs[1].ids) = MaxRows
  /\ response.body = "Success"

\* C18: the exported file is a function of the table alone: an export of the
\* table that file1.csv was written from (the table only grows, so that is a
\* table of as many records as the file has rows) writes the same file again,
\* the records of equal name in the same order
C18_ExportDeterministic ==
  [][("file1.csv" \in DOMAIN files /\ Len(files["file1.csv"].rows) = Len(store) /\ store' = store)
       => files'["file1.csv"] = files["file1.csv"]]_vars

\* a step that begins a run of read_csv_file
Begun == Len(runs') = Len(runs) + 1

\* a step that writes a file of another name than data.csv
OtherUploaded ==
  \E n \in DOMAIN files' \ {"data.csv"} : n \notin DOMAIN files \/ files'[n] # files[n]

\* C19: read_csv_file reads upload/data.csv and no other file: a run that
\* begins fails for want of the file where there is no data.csv, whatever else
\* is there, and else takes the rows and columns of the data.csv last stored;
\* an upload under another name leaves data.csv, and with it what a run
\* beginning next would read, as it was
C19_ReadsOnlyDataCsv ==
  [][/\ Begun =>
          IF "data.csv" \in DOMAIN files
          THEN /\ runs'[Len(runs')].err = "none"
               /\ runs'[Len(runs')].rows = files["data.csv"].rows
               /\ runs'[Len(runs')].name_list = ColumnList(read_csv(files["data.csv"]), "Name")
               /\ runs'[Len(runs')].age_list = ColumnList(read_csv(files["data.csv"]), "Age")
               /\ runs'[Len(runs')].email_list = ColumnList(read_csv(files["data.csv"]), "Email")
               /\ runs'[Len(runs')].password_list = ColumnList(read_csv(files["data.csv"]), "Password")
          ELSE runs'[Len(runs')].err = "NotFoundError"
     /\ OtherUploaded =>
          /\ ("data.csv" \in DOMAIN files') = ("data.csv" \in DOMAIN files)
          /\ "data.csv" \in DOMAIN files => files'["data.csv"] = files["data.csv"]
          /\ BeginRun' = BeginRun]_vars

\* a run that ended on the rows of data.csv while a notes.csv of other rows
\* was there from before the run
C19_Witness ==
  /\ {"data.csv", "notes.csv"} \subseteq DOMAIN files
  /\ files["data.csv"] # files["notes.csv"]
  /\ uploads = 1 /\ Len(runs) = 1
  /\ runs[1].pc = "done" /\ runs[1].rows = files["data.csv"].rows
  /\ Len(runs[1].ids) > 0

\* C20: a POST to insert_emp that carries all five fields adds one Employee
\* with the five values and leaves the Employees there were as they are; a
\* request of another method leaves the table as it is
C20_InsertCreatesOne ==
  [][\A POST \in FullPosts :
       /\ insert_emp("POST", POST) =>
            /\ Len(employee') = Len(employee) + 1
            /\ SubSeq(employee', 1, Len(employee)) = employee
            /\ \A k \in EmployeeFields : employee'[Len(employee')][k] = POST[k]
       /\ insert_emp("GET", POST) => employee' = employee]_vars

\* C21: a POST to edit_emp for a pk that is there, with all five fields, sets
\* the five fields of the Employee of id pk to the posted values and changes
\* nothing else: as many Employees as before, each at its place under its
\* id, the others with all their fields; a GET changes nothing
C21_EditSetsFiveFields ==
  [][\A pk \in Pks : \A POST \in FullPosts : EmployeeAt(pk) # {} =>
       /\ edit_emp(pk, "POST", POST) =>
            /\ Len(employee') = Len(employee)
            /\ \A i \in 1..Len(employee) :
                 /\ employee'[i].id = employee[i].id
                 /\ employee[i].id # pk => employee'[i] = employee[i]
                 /\ employee[i].id = pk => \A k \in EmployeeFields : employee'[i][k] = POST[k]
       /\ edit_emp(pk, "GET", POST) => employee' = employee]_vars

\* the records of the table q whose id is not pk, in their order
Without(q, pk) == SelectSeq(q, LAMBDA e : e.id # pk)

\* C22: a POST to remove_emp for a pk that is there deletes the Employee of id
\* pk and no other: the table afterwards is the table before without that one
\* record; a GET shows delete.html and deletes nothing
C22_RemoveDeletesOne ==
  [][\A pk \in Pks : EmployeeAt(pk) # {} =>
       /\ remove_emp(pk, "POST") =>
            /\ employee' = Without(employee, pk)
            /\ Len(employee') = Len(employee) - 1
            /\ response'.body = "redirect /show"
       /\ remove_emp(pk, "GET") =>
            /\ employee' = employee
            /\ response' = Response("remove_emp", "delete.html", "none")]_vars

\* the first of two Employees has been deleted by a POST, the second is there
C22_Witness ==
  /\ response = Response("remove_emp", "redirect /show", "none")
  /\ Len(employee) = 1 /\ employee[1].id = 2
  /\ employeeNextId = 3

RECURSIVE Offset(_, _)
\* the rows in the chunks before the c-th
Offset(chunks, c) == IF c = 1 THEN 0 ELSE Offset(chunks, c - 1) + Len(chunks[c - 1])

\* C23: a POST to upload_files with a valid form leaves under the name of the
\* upload a file of the upload's header whose rows are the rows of the chunks,
\* chunk after chunk, and nothing of an earlier file of that name; the other
\* files are as before and the answer is that the upload succeeded.  A GET and
\* a POST with a form that is not valid write no file
C23_UploadWritesChunks ==
  [][\A method \in {"GET", "POST"} : \A form \in Forms : upload_files_request(method, form) =>
       IF method = "POST" /\ form.valid
       THEN /\ DOMAIN files' = DOMAIN files \cup {form.name}
            /\ \A n \in DOMAIN files \ {form.name} : files'[n] = files[n]
            /\ files'[form.name].cols = form.cols
            /\ Len(files'[form.name].rows) = Offset(form.chunks, Len(form.chunks) + 1)
            /\ \A c \in 1..Len(form.chunks) : \A j \in 1..Len(form.chunks[c]) :
                 files'[form.name].rows[Offset(form.chunks, c) + j] = form.chunks[c][j]
            /\ response' = Response("upload_files", "File uploaded successfuly", "none")
       ELSE files' = files]_vars

\* an upload of MaxRows rows has been stored as data.csv and answered
C23_Witness ==
  /\ uploads = 1
  /\ "data.csv" \in DOMAIN files
  /\ Len(files["data.csv"].rows) = MaxRows
  /\ response = Response("upload_files", "File uploaded successfuly", "none")

\* C27: every request to upload_files ends with a response object: the view
\* never comes to its end returning nothing
C27_UploadAlwaysResponds ==
  response.view = "upload_files" => (response.body # "none" /\ response.err = "none")

\* C24: a POST to register with a valid form saves one new user, whose stored
\* password is the hash of the submitted one and not the submitted one; the
\* user logged in is a user of the table; the request ends with the redirect
\* to the profile page; a GET and a POST with a form that is not valid save
\* no user and log nobody in
C24_RegisterSavesThenLogsIn ==
  /\ [](session # 0 => \E i \in 1..Len(users) : users[i].id = session)
  /\ [][/\ \A method \in {"GET", "POST"} : \A form \in RegistrationForms : register_save(method, form) =>
            IF method = "POST" /\ is_valid(form)
            THEN /\ Len(users') = Len(users) + 1
                 /\ SubSeq(users', 1, Len(users)) = users
                 /\ users'[Len(users')].username = form.username
                 /\ users'[Len(users')].password = set_password(form.password)
                 /\ users'[Len(users')].password # form.password
                 /\ session' = session
            ELSE users' = users /\ session' = session /\ registering' = <<>>
       /\ register_login =>
            /\ users' = users
            /\ \E i \in 1..Len(users) : users[i].id = session'
            /\ response' = Response("register", "redirect profile", "none")]_vars

\* C25: a deletion lasts: an id the table has given out and holds no record
\* of (its record was removed) has no record in any later state, whatever
\* edit_emp requests for it are under way
C25_DeletionDurable ==
  [][\A pk \in Pks : (pk < employeeNextId /\ EmployeeAt(pk) = {}) => EmployeeAt(pk)' = {}]_vars

\* the records of the first k rows of a run, under no id
RowsUpTo(run, k) ==
  [i \in 1..k |-> CseStudents(0, run.name_list[i], run.age_list[i], run.email_list[i],
                              run.password_list[i])]

\* C26: an export written while an import of N rows is in its loop holds the
\* records stored before the import and those of the rows 1..k of the import,
\* for some k of 0..N, and nothing else: no row without the rows before it
C26_ExportSeesPrefix ==
  [][(Exported /\ runs # <<>> /\ runs[Len(runs)].pc = "loop") =>
       \E k \in 0..Len(runs[Len(runs)].name_list) :
         /\ \A i \in 1..k : IntegerFieldOk(runs[Len(runs)].age_list[i])
         /\ TupleBag(FileTuples(files'["file1.csv"])) =
              TupleBag(SubSeq(store, 1, runs[Len(runs)].before) \o RowsUpTo(runs[Len(runs)], k))]_vars

\* an export written between the first and the second row of an import of two
\* different rows, on top of records of an earlier import
C26_Witness ==
  /\ runs # <<>> /\ runs[Len(runs)].pc = "loop" /\ runs[Len(runs)].index = 1
  /\ runs[Len(runs)].before > 0
  /\ runs[Len(runs)].name_list[1] # runs[Len(runs)].name_list[2]
  /\ "file1.csv" \in DOMAIN files
  /\ Len(files["file1.csv"].rows) = runs[Len(runs)].before + 1

\* C28: a POST that lacks one of the five fields writes nothing: insert_emp
\* fails with the error of the missing key and creates no Employee; edit_emp
\* for an Employee that exists fails with it and leaves the table, that
\* Employee's fields among it, as it was
C28_MissingFieldWritesNothing ==
  [][\A POST \in PartPosts :
       /\ insert_emp("POST", POST) =>
            /\ employee' = employee /\ employeeNextId' = employeeNextId
            /\ response' = Response("insert_emp", "none", "MultiValueDictKeyError")
       /\ \A pk \in Pks : (EmployeeAt(pk) # {} /\ edit_emp(pk, "POST", POST)) =>
            /\ employee' = employee
            /\ response' = Response("edit_emp", "none", "MultiValueDictKeyError")]_vars

\* an edit that failed on a missing field, of the one Employee of the table,
\* whose name and gender are not those of the POST
C28_Witness ==
  /\ response = Response("edit_emp", "none", "MultiValueDictKeyError")
  /\ \E i \in 1..Len(employee) : employee[i].EmpName # <<"a">> /\ employee[i].EmpGender # <<"f">>
  /\ Len(employee) = 1

\* C29: edit_emp and remove_emp for a pk no Employee has fail with
\* DoesNotExist under every method and with every POST data, render no page
\* and leave the table as it is
C29_MissingPkFails ==
  [][\A pk \in Pks : EmployeeAt(pk) = {} =>
       \A method \in {"GET", "POST"} :
         /\ remove_emp(pk, method) =>
              employee' = employee /\ response' = Response("remove_emp", "none", "DoesNotExist")
         /\ \A POST \in Posts : edit_emp(pk, method, POST) =>
              employee' = employee /\ response' = Response("edit_emp", "none", "DoesNotExist")]_vars

\* remove_emp has failed for a pk that is not in a table of two records
C29_Witness ==
  /\ response = Response("remove_emp", "none", "DoesNotExist")
  /\ Len(employee) = 2

====
